---- MODULE Spec2Model ----
(***************************************************************************)
(* Model of the submission review bot (src/api/bot.py): a Firestore        *)
(* collection of submissions, the manager's chat with its inline           *)
(* keyboards, and the update handlers of the Telegram application, each    *)
(* split at its awaits on the store or on the Bot API so that concurrently *)
(* processed updates interleave.                                           *)
(***************************************************************************)
EXTENDS Integers, Sequences, FiniteSets, TLC

\* ---------------------------------------------------------------- bounds
MaxRecords == 2      \* documents ever created in the collection
MaxConc    == 2      \* updates processed at the same time
MaxEvents  == 3      \* updates (messages, presses) and manual deletions
MaxLen     == 1      \* characters in an incoming text or caption
NavRecords == 3      \* documents, in a run of one-at-a-time navigation
NavEvents  == 5      \* updates and manual deletions of such a run

\* ------------------------------------------------------------- constants
MANAGER_CHAT_ID == 1
UserChats == {2}
None == 0            \* Python's None for an optional integer argument

\* Characters: "tree" is the marker glyph, "_" is whitespace, "a" any other.
Chars == {"tree", "_", "a"}
Texts == UNION {[1..k -> Chars] : k \in 0..MaxLen}
MenuAll == <<"clip", "_", "a">>
MenuFav == <<"star", "_", "a">>
MenuSel == <<"flag", "_", "a">>
MenuLabels == {MenuAll, MenuFav, MenuSel}
StartText == <<"/start">>
Placeholder == <<"cam", "_", "a">>
Bodies == Texts \cup MenuLabels \cup {StartText}

DocNames == <<"d1", "d2", "d3", "d4", "d5">>
MostRecords == IF NavRecords > MaxRecords THEN NavRecords ELSE MaxRecords
IdsOf(n) == {DocNames[i] : i \in 1..n}
DocIds == IdsOf(MostRecords)
NameOrd(d) == CHOOSE i \in 1..Len(DocNames) : DocNames[i] = d

Numerals == <<"0", "1", "2", "3", "4", "5", "6", "7", "8", "9">>

VARIABLES
  store,      \* the submissions collection: doc id -> document
  usedIds,    \* doc ids ever assigned (auto ids are never reused)
  clock,      \* the newest server timestamp handed out
  chat,       \* the manager's chat: message id -> displayed message
  nextMid,    \* the next message id of the manager's chat
  tasks,      \* the updates being processed, one per slot
  nEvents,    \* updates and manual deletions so far
  run,        \* the limits of this run: documents, updates, concurrent updates
  wlog        \* per document, the flag writes applied to it, in order

vars == <<store, usedIds, clock, chat, nextMid, tasks, nEvents, run, wlog>>

Slots == 1..MaxConc

\* ------------------------------------------------------------ str helpers
\* str(n) as an f-string writes it, and int(s) as line 244 parses it.
ToStr(n) == Numerals[n + 1]
IsInt(s) == \E n \in 1..Len(Numerals) : Numerals[n] = s
ToInt(s) == (CHOOSE n \in 1..Len(Numerals) : Numerals[n] = s) - 1

startswith(s, c) == Len(s) > 0 /\ s[1] = c

RECURSIVE lstrip(_)
lstrip(s) == IF Len(s) > 0 /\ s[1] = "_" THEN lstrip(Tail(s)) ELSE s
RECURSIVE rstrip(_)
rstrip(s) ==
  IF Len(s) > 0 /\ s[Len(s)] = "_" THEN rstrip(SubSeq(s, 1, Len(s) - 1)) ELSE s
strip(s) == rstrip(lstrip(s))

\* ------------------------------------------------------------------ store
NoSub == [doc_id |-> "None", chatId |-> 0, text |-> <<>>, photo |-> "None",
          favorite |-> FALSE, selected |-> FALSE, createdAt |-> 0]

\* An ascending order_by: the oldest document first.
BeforeOldestFirst(a, b) ==
  \/ a.createdAt < b.createdAt
  \/ a.createdAt = b.createdAt /\ NameOrd(a.doc_id) < NameOrd(b.doc_id)

\* order_by('createdAt', DESCENDING); equal timestamps fall back to the
\* document name, in the same direction.
Before(a, b) ==
  \/ a.createdAt > b.createdAt
  \/ a.createdAt = b.createdAt /\ NameOrd(a.doc_id) > NameOrd(b.doc_id)

RECURSIVE SortDocs(_)
SortDocs(S) ==
  IF S = {} THEN <<>>
  ELSE LET first == CHOOSE a \in S : \A b \in S \ {a} : Before(a, b)
       IN <<first>> \o SortDocs(S \ {first})

Matches(doc, filter_key) ==
  CASE filter_key = "favorite" -> doc.favorite
    [] filter_key = "selected" -> doc.selected
    [] OTHER -> TRUE

get_submissions_list(filter_key) ==
  SortDocs({store[d] : d \in {x \in DOMAIN store : Matches(store[x], filter_key)}})

get_submission_by_doc_id(doc_id) ==
  IF doc_id \in DOMAIN store THEN store[doc_id] ELSE NoSub

\* A write that gives both flags the new value.
ApplyUpdatesBoth(doc, updates) ==
  [doc EXCEPT !.favorite = updates[2], !.selected = updates[2]]

\* document(doc_id).update(updates): a merge of the given fields.
ApplyUpdates(doc, updates) ==
  [doc EXCEPT ![updates[1]] = updates[2]]

\* A transactional flip: the write negates what is stored at the time.
update_submission_status_flip(doc_id, updates) ==
  [store EXCEPT ![doc_id] = [@ EXCEPT ![updates[1]] = ~@]]

\* A set() in place of update(): the document keeps only the written flag.
update_submission_status_set(doc_id, updates) ==
  [store EXCEPT ![doc_id] =
     ApplyUpdates([store[doc_id] EXCEPT !.favorite = FALSE, !.selected = FALSE],
                  updates)]

update_submission_status(doc_id, updates) ==
  [store EXCEPT ![doc_id] = ApplyUpdates(store[doc_id], updates)]

\* --------------------------------------------------------------- keyboard
Button(text, callback_data) == [text |-> text, callback_data |-> callback_data]

build_keyboard(submission, index, total) ==
  LET fav_label == IF submission.favorite THEN <<"unfav">> ELSE <<"fav">>
      sel_label == IF submission.selected THEN <<"unsel">> ELSE <<"sel">>
      doc_id == submission.doc_id
      keyboard == << << Button(fav_label, <<"fav", doc_id>>),
                        Button(sel_label, <<"sel", doc_id>>) >> >>
  IN IF index # None /\ total # None
     THEN Append(keyboard,
            << Button(<<"back">>, <<"prev", ToStr(index)>>),
               Button(<<ToStr(index), "/", ToStr(total)>>, <<"noop">>),
               Button(<<"forward">>, <<"next", ToStr(index)>>) >>)
     ELSE keyboard

\* Bookkeeping of the model, not of the program: a displayed message was
\* reached by presses of "next" in a row, each handled against a list of n
\* documents; trail lists the positions shown along the way, from the first
\* message pressed to this one (empty: not reached by "next"); view is the
\* menu filter the message was opened with ("None": all, or not from the menu).
NoChain == [trail |-> <<>>, n |-> 0, view |-> "None"]

\* What send_submission delivers: a photo with caption or a text, and the keyboard.
Rendered(sub, index, total, chain) ==
  [doc_id |-> sub.doc_id,
   kind |-> IF sub.photo # "None" THEN "photo" ELSE "text",
   caption |-> sub.text,
   reply_markup |-> build_keyboard(sub, index, total),
   chain |-> chain]

\* ------------------------------------------------------------------ tasks
\* An update being handled: the handler, where it stands (pc names the await
\* it is about to make), its locals, the answers it gave to the callback
\* query (acks) and how it ended (out).
IdleTask ==
  [handler |-> "none", pc |-> "idle", filter_key |-> "None",
   data |-> <<>>, mid |-> 0, doc_id |-> "None", sub |-> NoSub, updates |-> <<>>,
   index |-> 0, total |-> 0, new_index |-> 0, readAt |-> 0, chain |-> NoChain,
   from |-> NoChain,
   acks |-> <<>>, out |-> ""]

Finished(t) == t.pc \in {"done", "failed"}

\* A slot is free before its first update and once its handler has returned
\* (or raised); what is kept of a finished handler is how it ended.
Free(t) == t.pc = "idle" \/ Finished(t)

\* The lowest free slot takes the next update.
FreeSlot(s) == Free(tasks[s]) /\ \A r \in Slots : r < s => ~Free(tasks[r])

End(t, pc, out, acks) ==
  [IdleTask EXCEPT !.handler = t.handler, !.pc = pc, !.out = out, !.acks = acks]

Send(message) ==
  /\ chat' = [m \in DOMAIN chat \cup {nextMid} |->
                IF m = nextMid THEN message ELSE chat[m]]
  /\ nextMid' = nextMid + 1

\* ------------------------------------------------- dispatch of an update
\* CommandHandler("start") reads message.text only; a caption is not a command.
IsStartCommand(m) == m.photo = "None" /\ startswith(m.body, "/start")

\* A filter that lets the manager's chat through as well.
IsNonManagerAny(m) == TRUE

\* filters.ALL & ~filters.Chat(MANAGER_CHAT_ID)
IsNonManager(m) == m.chat # MANAGER_CHAT_ID

\* filters.Chat(MANAGER_CHAT_ID) & filters.Text([...]): the whole text is a label.
IsManagerMenu(m) ==
  m.chat = MANAGER_CHAT_ID /\ m.photo = "None" /\ m.body \in MenuLabels

\* The first handler of the group whose filter accepts the update handles it.
HandlerFor(m) ==
  IF IsStartCommand(m) THEN "start_command"
  ELSE IF IsNonManager(m) THEN "handle_new_submission"
  ELSE IF IsManagerMenu(m) THEN "handle_manager_hears"
  ELSE "none"

Messages ==
  [chat : UserChats \cup {MANAGER_CHAT_ID}, body : Bodies, photo : {"None", "file"}]

\* An update can be taken up: a slot is free (and the run is within MaxEvents).
CanArrive(s) == s <= run.slots /\ FreeSlot(s) /\ nEvents < run.events

Arrives(s) == CanArrive(s) /\ nEvents' = nEvents + 1

\* An update no handler accepts is dropped.
Unhandled(s, m) ==
  /\ Arrives(s)
  /\ HandlerFor(m) = "none"
  /\ UNCHANGED <<store, usedIds, clock, chat, nextMid, tasks, run, wlog>>

\* ----------------------------------------------------------- start_command
StartCommand(s, m) ==
  /\ Arrives(s)
  /\ HandlerFor(m) = "start_command"
  /\ tasks' = [tasks EXCEPT ![s] =
                 [IdleTask EXCEPT !.handler = "start_command", !.pc = "done",
                    !.out = IF m.chat # MANAGER_CHAT_ID
                            THEN "welcome_reply" ELSE "panel_reply"]]
  /\ UNCHANGED <<store, usedIds, clock, chat, nextMid, run, wlog>>

\* --------------------------------------------------- handle_new_submission
\* A check that takes any non-empty text for a submission.
is_submission_loose(content, photo) == content # <<>> \/ photo # "None"

is_submission(content, photo) == startswith(content, "tree") \/ photo # "None"

\* A submission that is born a favorite.
NewSubmissionFav(m, doc_id, createdAt) ==
  [doc_id |-> doc_id, chatId |-> m.chat,
   text |-> IF strip(m.body) # <<>> THEN strip(m.body) ELSE Placeholder,
   photo |-> m.photo, favorite |-> TRUE, selected |-> FALSE,
   createdAt |-> createdAt]

\* A submission stored without the placeholder for an empty caption.
NewSubmissionRaw(m, doc_id, createdAt) ==
  [doc_id |-> doc_id, chatId |-> m.chat, text |-> strip(m.body),
   photo |-> m.photo, favorite |-> FALSE, selected |-> FALSE,
   createdAt |-> createdAt]

NewSubmission(m, doc_id, createdAt) ==
  [doc_id |-> doc_id,
   chatId |-> m.chat,
   text |-> IF strip(m.body) # <<>> THEN strip(m.body) ELSE Placeholder,
   photo |-> m.photo,
   favorite |-> FALSE,
   selected |-> FALSE,
   createdAt |-> createdAt]

\* SERVER_TIMESTAMP: never older than the newest one handed out.
Timestamps == IF clock = 0 THEN {1} ELSE {clock, clock + 1}

\* The handler up to and including save_submission_to_db.
IntakeSave(s, m) ==
  /\ Arrives(s)
  /\ HandlerFor(m) = "handle_new_submission"
  /\ IF ~is_submission(m.body, m.photo)
     THEN /\ tasks' = [tasks EXCEPT ![s] =
                         [IdleTask EXCEPT !.handler = "handle_new_submission",
                            !.pc = "done", !.out = "ignored"]]
          /\ UNCHANGED <<store, usedIds, clock>>
     ELSE /\ Cardinality(usedIds) < run.records
          /\ \E doc_id \in IdsOf(run.records) \ usedIds, ts \in Timestamps :
               LET saved == NewSubmission(m, doc_id, ts) IN
               /\ store' = [d \in DOMAIN store \cup {doc_id} |->
                              IF d = doc_id THEN saved ELSE store[d]]
               /\ usedIds' = usedIds \cup {doc_id}
               /\ clock' = ts
               /\ tasks' = [tasks EXCEPT ![s] =
                              [IdleTask EXCEPT !.handler = "handle_new_submission",
                                 !.pc = "send_manager", !.doc_id = doc_id,
                                 !.sub = [saved EXCEPT !.createdAt = 0]]]
  /\ UNCHANGED <<chat, nextMid, run, wlog>>

IntakeSend(s) ==
  /\ tasks[s].pc = "send_manager"
  /\ Send(Rendered(tasks[s].sub, None, None, NoChain))
  /\ tasks' = [tasks EXCEPT ![s] = End(@, "done", "delivered", <<>>)]
  /\ UNCHANGED <<store, usedIds, clock, nEvents, run, wlog>>

\* ---------------------------------------------------- handle_manager_hears
FilterKey(text) ==
  CASE text = MenuFav -> "favorite"
    [] text = MenuSel -> "selected"
    [] OTHER -> "None"

\* The handler up to and including get_submissions_list and, on an empty
\* list, the "none yet" reply.
MenuList(s, m) ==
  /\ Arrives(s)
  /\ HandlerFor(m) = "handle_manager_hears"
  /\ LET list_to_show == get_submissions_list(FilterKey(m.body))
         t == [IdleTask EXCEPT !.handler = "handle_manager_hears",
                               !.filter_key = FilterKey(m.body)]
     IN tasks' = [tasks EXCEPT ![s] =
                    IF list_to_show = <<>>
                    THEN End(t, "done", "none_found", <<>>)
                    ELSE [t EXCEPT !.pc = "menu_send",
                            !.sub = list_to_show[1],
                            !.total = Len(list_to_show)]]
  /\ UNCHANGED <<store, usedIds, clock, chat, nextMid, run, wlog>>

MenuSend(s) ==
  /\ tasks[s].pc = "menu_send"
  /\ Send(Rendered(tasks[s].sub, 1, tasks[s].total,
                    [NoChain EXCEPT !.view = tasks[s].filter_key]))
  /\ tasks' = [tasks EXCEPT ![s] = End(@, "done", "shown", @.acks)]
  /\ UNCHANGED <<store, usedIds, clock, nEvents, run, wlog>>

\* --------------------------------------------------- handle_callback_query
OnKeyboard(mid, data) ==
  /\ mid \in DOMAIN chat
  /\ \E r \in 1..Len(chat[mid].reply_markup) :
       \E c \in 1..Len(chat[mid].reply_markup[r]) :
         data = chat[mid].reply_markup[r][c].callback_data

\* The handler up to its first store call: query.answer(), then the split
\* of the payload.
Parsed(data, mid) ==
  LET parts == data
      query_type == parts[1]
      t == [IdleTask EXCEPT !.handler = "handle_callback_query",
                            !.data = data, !.mid = mid, !.acks = <<"">>]
  IN CASE query_type = "noop" -> End(t, "done", "noop", t.acks)
       [] query_type \in {"next", "prev"} -> [t EXCEPT !.pc = "nav_list"]
       [] query_type \in {"fav", "sel"} ->
            IF Len(parts) < 2
            THEN End(t, "failed", "IndexError", t.acks)
            ELSE [t EXCEPT !.pc = "get", !.doc_id = parts[2]]
       [] OTHER -> End(t, "done", "ignored", t.acks)

\* The manager presses a button of a displayed message.
PressButton(s, mid, data) ==
  /\ Arrives(s)
  /\ OnKeyboard(mid, data)
  /\ tasks' = [tasks EXCEPT ![s] =
                 IF Parsed(data, mid).pc = "nav_list"
                 THEN [Parsed(data, mid) EXCEPT !.from = chat[mid].chain]
                 ELSE Parsed(data, mid)]
  /\ UNCHANGED <<store, usedIds, clock, chat, nextMid, run, wlog>>

\* Payloads no keyboard of build_keyboard carries: an unknown kind, a kind
\* without its argument, a position that is no integer.
MalformedData ==
  {<<"zzz">>, <<"fav">>, <<"sel">>, <<"next">>, <<"prev">>,
   <<"next", "x">>, <<"prev", "x">>}

\* A callback query with such a payload, on a displayed message.
PressMalformed(s, mid, data) ==
  /\ Arrives(s)
  /\ mid \in DOMAIN chat
  /\ data \in MalformedData
  /\ tasks' = [tasks EXCEPT ![s] = Parsed(data, mid)]
  /\ UNCHANGED <<store, usedIds, clock, chat, nextMid, run, wlog>>

\* A step that stops at either end of the list instead of wrapping.
NewIndexClamped(query_type, current_index, total) ==
  IF query_type = "next"
  THEN (IF current_index + 1 > total - 1 THEN total - 1 ELSE current_index + 1)
  ELSE (IF current_index - 1 < 0 THEN 0 ELSE current_index - 1)

\* A step without the modulus.
NewIndexNoWrap(query_type, current_index, total) ==
  IF query_type = "next" THEN current_index + 1 ELSE current_index - 1

\* The two directions taken for each other.
NewIndexSwapped(query_type, current_index, total) ==
  IF query_type = "next"
  THEN (current_index - 1 + total) % total
  ELSE (current_index + 1) % total

NewIndex(query_type, current_index, total) ==
  IF query_type = "next"
  THEN (current_index + 1) % total
  ELSE (current_index - 1 + total) % total

\* submissions[i] as Python indexes a list: a negative index counts from the
\* end, an index outside -len..len-1 raises IndexError.
InRange(submissions, i) == -Len(submissions) <= i /\ i < Len(submissions)
Item(submissions, i) ==
  IF i >= 0 THEN submissions[i + 1] ELSE submissions[Len(submissions) + i + 1]

Chained(chain, query_type, p, new_p, total) ==
  IF query_type # "next" THEN NoChain
  ELSE IF chain.trail # <<>> /\ chain.n = total
       THEN [chain EXCEPT !.trail = Append(@, new_p), !.view = "None"]
       ELSE [trail |-> <<p, new_p>>, n |-> total, view |-> "None"]

\* A navigation that kept the filter of the view the message was opened from.
NavFilterKept(t) == t.from.view

\* get_submissions_list() at line 243: no filter_key is passed.
NavFilter(t) == "None"

\* A test that also takes a list of one document for an empty one.
IsFalsyBelowTwo(total) == total < 2

\* "if not total": Python's truth value of an integer.
IsFalsy(total) == total = 0

NavList(s) ==
  /\ tasks[s].pc = "nav_list"
  /\ LET submissions == get_submissions_list(NavFilter(tasks[s]))
         parts == tasks[s].data
         t == tasks[s]
     IN tasks' = [tasks EXCEPT ![s] =
          IF Len(parts) < 2 THEN End(t, "failed", "IndexError", t.acks)
          ELSE IF ~IsInt(parts[2])
          THEN End(t, "failed", "ValueError", t.acks)
          ELSE LET current_index == ToInt(parts[2]) - 1
                   total == Len(submissions)
               IN IF IsFalsy(total)
                  THEN End(t, "done", "list_empty", Append(t.acks, "list_empty"))
                  ELSE LET new_index == NewIndex(parts[1], current_index, total)
                       IN IF ~InRange(submissions, new_index)
                          THEN End(t, "failed", "IndexError", t.acks)
                          ELSE
                          [t EXCEPT !.pc = "nav_delete", !.total = total,
                             !.new_index = new_index,
                             !.sub = Item(submissions, new_index),
                             !.chain = Chained(t.from, parts[1],
                                               current_index + 1,
                                               new_index + 1, total)]]
  /\ UNCHANGED <<store, usedIds, clock, chat, nextMid, nEvents, run, wlog>>

\* A delete whose failure does not keep the handler from sending.
NavDeleteAlwaysSends(s) ==
  /\ tasks[s].pc = "nav_delete"
  /\ chat' = [m \in DOMAIN chat \ {tasks[s].mid} |-> chat[m]]
  /\ tasks' = [tasks EXCEPT ![s].pc = "nav_send"]
  /\ UNCHANGED <<store, usedIds, clock, nextMid, nEvents, run, wlog>>

\* query.delete_message(): deleting a message that is gone raises, and the
\* handler logs it and returns.
NavDelete(s) ==
  /\ tasks[s].pc = "nav_delete"
  /\ IF tasks[s].mid \in DOMAIN chat
     THEN /\ chat' = [m \in DOMAIN chat \ {tasks[s].mid} |-> chat[m]]
          /\ tasks' = [tasks EXCEPT ![s].pc = "nav_send"]
     ELSE /\ chat' = chat
          /\ tasks' = [tasks EXCEPT ![s] = End(@, "done", "nav_error_logged", @.acks)]
  /\ UNCHANGED <<store, usedIds, clock, nextMid, nEvents, run, wlog>>

NavSend(s) ==
  /\ tasks[s].pc = "nav_send"
  /\ Send(Rendered(tasks[s].sub, tasks[s].new_index + 1, tasks[s].total,
                    tasks[s].chain))
  /\ tasks' = [tasks EXCEPT ![s] = End(@, "done", "shown", @.acks)]
  /\ UNCHANGED <<store, usedIds, clock, nEvents, run, wlog>>

FlagOf(query_type) == IF query_type = "fav" THEN "favorite" ELSE "selected"

\* A press that always sets the flag instead of flipping it.
NewStatusSet(sub, flag) == TRUE

\* new_status = not sub.get(flag, False)
NewStatus(sub, flag) == ~sub[flag]

ToggleGet(s) ==
  /\ tasks[s].pc = "get"
  /\ LET t == tasks[s]
         sub == get_submission_by_doc_id(t.doc_id)
     IN tasks' = [tasks EXCEPT ![s] =
          IF sub = NoSub
          THEN End(t, "done", "not_found", Append(t.acks, "not_found"))
          ELSE [t EXCEPT !.pc = "update", !.sub = sub,
                  !.updates = <<FlagOf(t.data[1]), NewStatus(sub, FlagOf(t.data[1]))>>,
                  !.readAt = Len(wlog[t.doc_id])]]
  /\ UNCHANGED <<store, usedIds, clock, chat, nextMid, nEvents, run, wlog>>

\* update() of a document that does not exist raises NotFound.
ToggleUpdate(s) ==
  /\ tasks[s].pc = "update"
  /\ LET t == tasks[s] IN
     IF t.doc_id \notin DOMAIN store
     THEN /\ tasks' = [tasks EXCEPT ![s] = End(t, "failed", "NotFound", t.acks)]
          /\ UNCHANGED <<store, wlog>>
     ELSE /\ store' = update_submission_status(t.doc_id, t.updates)
          /\ wlog' = [wlog EXCEPT ![t.doc_id] = Append(@,
                        [field |-> t.updates[1],
                         old |-> store[t.doc_id][t.updates[1]],
                         new |-> t.updates[2],
                         readAt |-> t.readAt])]
          /\ tasks' = [tasks EXCEPT ![s].pc = "tlist",
                         ![s].sub = ApplyUpdates(t.sub, t.updates)]
  /\ UNCHANGED <<usedIds, clock, chat, nextMid, nEvents, run>>

\* A scan that reports the head of the list for any document it contains.
IndexOfHead(submissions, doc_id) ==
  IF \E i \in 1..Len(submissions) : submissions[i].doc_id = doc_id THEN 0 ELSE -1

\* next((i for i, s in enumerate(submissions) if s.get('doc_id') == doc_id), -1)
IndexOf(submissions, doc_id) ==
  IF \E i \in 1..Len(submissions) : submissions[i].doc_id = doc_id
  THEN (CHOOSE i \in 1..Len(submissions) :
          /\ submissions[i].doc_id = doc_id
          /\ \A j \in 1..(i - 1) : submissions[j].doc_id # doc_id) - 1
  ELSE -1

ToggleList(s) ==
  /\ tasks[s].pc = "tlist"
  /\ LET t == tasks[s]
         submissions == get_submissions_list("None")
         total == Len(submissions)
         index == IndexOf(submissions, t.doc_id)
     IN tasks' = [tasks EXCEPT ![s] =
          IF index # -1
          THEN [t EXCEPT !.pc = "edit", !.index = index, !.total = total]
          ELSE End(t, "done", "could_not_update",
                   Append(t.acks, "could_not_update"))]
  /\ UNCHANGED <<store, usedIds, clock, chat, nextMid, nEvents, run, wlog>>

\* edit_message_reply_markup: the Bot API rejects the edit of a deleted
\* message and an edit that changes nothing; either raises out of the handler.
ToggleEdit(s) ==
  /\ tasks[s].pc = "edit"
  /\ LET t == tasks[s]
         markup == build_keyboard(t.sub, t.index + 1, t.total)
     IN IF t.mid \notin DOMAIN chat
        THEN /\ tasks' = [tasks EXCEPT ![s] = End(t, "failed", "BadRequest", t.acks)]
             /\ chat' = chat
        ELSE IF chat[t.mid].reply_markup = markup
        THEN /\ tasks' = [tasks EXCEPT ![s] = End(t, "failed", "NotModified", t.acks)]
             /\ chat' = chat
        ELSE /\ chat' = [chat EXCEPT ![t.mid].reply_markup = markup,
                                    ![t.mid].chain = NoChain]
             /\ tasks' = [tasks EXCEPT ![s] =
                            End(t, "done", "saved", Append(t.acks, "saved"))]
  /\ UNCHANGED <<store, usedIds, clock, nextMid, nEvents, run, wlog>>

\* A failing store call that the handler catches and reports to the manager.
StoreFailsAnswered(s) ==
  /\ tasks[s].pc \in {"nav_list", "get", "update", "tlist"}
  /\ tasks' = [tasks EXCEPT ![s] =
                 End(@, "done", "store_error", Append(@.acks, "store_error"))]
  /\ UNCHANGED <<store, usedIds, clock, chat, nextMid, nEvents, run, wlog>>

\* The store call a callback handler is about to make raises (the service is
\* unavailable, the deadline is exceeded): nothing around the call catches
\* it, so the handler ends there.
StoreCalls == {"nav_list", "get", "update", "tlist"}

StoreFails(s) ==
  /\ tasks[s].pc \in StoreCalls
  /\ tasks' = [tasks EXCEPT ![s] = End(@, "failed", "StoreError", @.acks)]
  /\ UNCHANGED <<store, usedIds, clock, chat, nextMid, nEvents, run, wlog>>

\* A document removed by hand in the Firestore console.
ExternalDelete(d) ==
  /\ d \in DOMAIN store
  /\ nEvents < run.events
  /\ nEvents' = nEvents + 1
  /\ store' = [x \in DOMAIN store \ {d} |-> store[x]]
  /\ UNCHANGED <<usedIds, clock, chat, nextMid, tasks, run, wlog>>

\* ------------------------------------------------------------------- spec
\* The collection outlives the process: at start it holds what earlier runs
\* stored, documents created one after the other by handle_new_submission
\* (here from InitMessages), with any flags, and server timestamps that never
\* decrease in creation order.
InitMessages ==
  {[chat |-> 2, body |-> <<"tree">>, photo |-> "None"],
   [chat |-> 2, body |-> <<>>, photo |-> "file"]}

\* The doc ids of n documents, in creation order: auto ids are random.
InitOrders(n) ==
  {f \in [1..n -> IdsOf(MaxRecords)] : \A i, j \in 1..n : i # j => f[i] # f[j]}

InitStamps(n) ==
  {ts \in [1..n -> 1..n] :
     /\ n > 0 => ts[1] = 1
     /\ \A i \in 1..(n - 1) : ts[i + 1] \in {ts[i], ts[i] + 1}}

StoreOf(n, f, ts, m, fl) ==
  [d \in {f[i] : i \in 1..n} |->
     LET i == CHOOSE k \in 1..n : f[k] = d
     IN [NewSubmission(m[i], d, ts[i]) EXCEPT !.favorite = fl[i][1],
                                               !.selected = fl[i][2]]]

InitStores ==
  UNION {
    { StoreOf(n, f, ts, m, fl) :
        f \in InitOrders(n), ts \in InitStamps(n),
        m \in [1..n -> InitMessages],
        fl \in [1..n -> BOOLEAN \X BOOLEAN] } : n \in 0..MaxRecords }

\* The same for the longer navigation runs: text submissions with distinct
\* timestamps, any flags.
NavStores ==
  UNION {
    { StoreOf(n, [i \in 1..n |-> DocNames[i]], [i \in 1..n |-> i],
              [i \in 1..n |-> [chat |-> 2, body |-> <<"tree">>, photo |-> "None"]],
              fl) :
        fl \in [1..n -> BOOLEAN \X BOOLEAN] } :
    n \in 0..NavRecords }

MaxStamp(st) ==
  IF DOMAIN st = {} THEN 0
  ELSE CHOOSE c \in {st[d].createdAt : d \in DOMAIN st} :
         \A d \in DOMAIN st : st[d].createdAt <= c

InitWith(stores, limits) ==
  /\ store \in stores
  /\ usedIds = DOMAIN store
  /\ clock = MaxStamp(store)
  /\ chat = << >>
  /\ nextMid = 1
  /\ tasks = [s \in Slots |-> IdleTask]
  /\ nEvents = 0
  /\ run = limits
  /\ wlog = [d \in DocIds |-> <<>>]

Init ==
  InitWith(InitStores,
           [records |-> MaxRecords, events |-> MaxEvents, slots |-> MaxConc])

InitNav ==
  InitWith(NavStores, [records |-> NavRecords, events |-> NavEvents, slots |-> 1])

ButtonData ==
  {<<k, d>> : k \in {"fav", "sel"}, d \in DocIds} \cup
  {<<k, ToStr(i)>> : k \in {"next", "prev"}, i \in 1..MostRecords} \cup {<<"noop">>}

Next ==
  \/ \E s \in Slots : CanArrive(s) /\ \E m \in Messages : Unhandled(s, m)
  \/ \E s \in Slots : CanArrive(s) /\ \E m \in Messages : StartCommand(s, m)
  \/ \E s \in Slots : CanArrive(s) /\ \E m \in Messages : IntakeSave(s, m)
  \/ \E s \in Slots : IntakeSend(s)
  \/ \E s \in Slots : CanArrive(s) /\ \E m \in Messages : MenuList(s, m)
  \/ \E s \in Slots : MenuSend(s)
  \/ \E s \in Slots : CanArrive(s) /\ \E mid \in DOMAIN chat, data \in ButtonData :
                         PressButton(s, mid, data)
  \/ \E s \in Slots : CanArrive(s) /\ \E mid \in DOMAIN chat, data \in MalformedData :
                         PressMalformed(s, mid, data)
  \/ \E s \in Slots : NavList(s)
  \/ \E s \in Slots : NavDelete(s)
  \/ \E s \in Slots : NavSend(s)
  \/ \E s \in Slots : StoreFails(s)
  \/ \E s \in Slots : ToggleGet(s)
  \/ \E s \in Slots : ToggleUpdate(s)
  \/ \E s \in Slots : ToggleList(s)
  \/ \E s \in Slots : ToggleEdit(s)
  \/ \E d \in DocIds : ExternalDelete(d)

Spec == Init /\ [][Next]_vars

\* The manager browsing a longer list: menu presses and navigation presses
\* handled one at a time, and documents removed by hand in between.
PressNav(s, mid, data) ==
  /\ data[1] \in {"next", "prev", "noop"}
  /\ PressButton(s, mid, data)

NextNav ==
  \/ \E s \in Slots : CanArrive(s) /\ \E m \in Messages : MenuList(s, m)
  \/ \E s \in Slots : MenuSend(s)
  \/ \E s \in Slots : CanArrive(s) /\ \E mid \in DOMAIN chat, data \in ButtonData :
                         PressNav(s, mid, data)
  \/ \E s \in Slots : NavList(s)
  \/ \E s \in Slots : NavDelete(s)
  \/ \E s \in Slots : NavSend(s)
  \/ \E d \in DocIds : ExternalDelete(d)

SpecNav == InitNav /\ [][NextNav]_vars

\* ================================================================ claims

\* ---- C1
\* C1: a document whose favorite and selected flags were both false, and to
\* which exactly one favorite press and one selected press have been written,
\* in either order and however the two handlers interleaved, is stored with
\* favorite = TRUE and selected = TRUE.
OneFavOneSel(d) ==
  /\ Len(wlog[d]) = 2
  /\ {wlog[d][1].field, wlog[d][2].field} = {"favorite", "selected"}
  /\ wlog[d][1].old = FALSE
  /\ wlog[d][2].old = FALSE

C1_BothTogglesPersist ==
  \A d \in DOMAIN store :
    OneFavOneSel(d) => store[d].favorite /\ store[d].selected

\* The two presses overlapped: the second writer had read the document
\* before the first wrote.
C1_Witness ==
  \E d \in DOMAIN store :
    /\ OneFavOneSel(d)
    /\ wlog[d][2].readAt = 0
    /\ store[d].favorite /\ store[d].selected

\* ---- C2
\* C2: when two presses of the same flag on a document are handled one after
\* the other (the first read and wrote with no write in between, the second
\* read after the first wrote and wrote with no write in between), the second
\* writes the value the flag had before the first, and the document holds it.
BackToBack(d, i) ==
  /\ i + 1 <= Len(wlog[d])
  /\ wlog[d][i].field = wlog[d][i + 1].field
  /\ wlog[d][i].readAt = i - 1
  /\ wlog[d][i + 1].readAt = i

C2_ToggleTwiceRestores ==
  \A d \in DocIds : \A i \in 1..Len(wlog[d]) :
    BackToBack(d, i) =>
      /\ wlog[d][i + 1].new = wlog[d][i].old
      /\ (d \in DOMAIN store /\ Len(wlog[d]) = i + 1)
           => store[d][wlog[d][i].field] = wlog[d][i].old

C2_Witness ==
  \E d \in DOMAIN store :
    /\ Len(wlog[d]) = 2
    /\ BackToBack(d, 1)
    /\ store[d][wlog[d][1].field] = wlog[d][1].old

\* ---- C3
\* The navigation row of a displayed message: its indicator and the positions
\* its two arrows carry (empty when the message has no navigation row).
NavRow(message) ==
  IF Len(message.reply_markup) < 2 THEN <<>>
  ELSE <<message.reply_markup[2][1].callback_data,
         message.reply_markup[2][2].text,
         message.reply_markup[2][3].callback_data>>

NavRowFor(index, total) ==
  <<<<"prev", ToStr(index)>>, <<ToStr(index), "/", ToStr(total)>>,
    <<"next", ToStr(index)>>>>

Newer(d) == {x \in DOMAIN store : store[x].createdAt > store[d].createdAt}
NotOlder(d) == {x \in DOMAIN store : store[x].createdAt >= store[d].createdAt}

\* C3: the list re-fetched after the write places a document that is still
\* stored at its 1-based rank by createdAt descending (after every newer
\* document, before every older one) with the total the number of stored
\* documents, and the edit writes exactly that position and total into the
\* message's navigation row; for a document that is gone the handler answers
\* "could not update" and ends without touching the message.
C3_ReanchorAfterToggle ==
  [][\A s \in Slots :
       /\ ToggleList(s) =>
            IF tasks[s].doc_id \in DOMAIN store
            THEN /\ tasks'[s].pc = "edit"
                 /\ tasks'[s].index + 1 > Cardinality(Newer(tasks[s].doc_id))
                 /\ tasks'[s].index + 1 <= Cardinality(NotOlder(tasks[s].doc_id))
                 /\ tasks'[s].total = Cardinality(DOMAIN store)
            ELSE /\ tasks'[s].pc = "done"
                 /\ tasks'[s].acks = <<"", "could_not_update">>
                 /\ chat' = chat
       /\ (ToggleEdit(s) /\ tasks[s].mid \in DOMAIN chat) =>
            NavRow(chat'[tasks[s].mid]) =
              NavRowFor(tasks[s].index + 1, tasks[s].total)]_vars

\* A message opened from a filtered view as 1/1 is about to be re-anchored
\* to the second place of two.
C3_Witness ==
  \E s \in Slots :
    /\ tasks[s].pc = "edit"
    /\ tasks[s].index = 1 /\ tasks[s].total = 2
    /\ tasks[s].mid \in DOMAIN chat
    /\ NavRow(chat[tasks[s].mid]) = NavRowFor(1, 1)

\* ---- C4
\* The position a displayed message shows in its navigation row.
PosOf(message) == ToInt(message.reply_markup[2][3].callback_data[2])

\* C4: along presses of "next" made one after the other, each on the message
\* the previous one rendered and each handled against a list of the same
\* length n, the message rendered by the n-th press after a message at
\* position p in 1..n shows position p again.
C4_NextCycles ==
  \A mid \in DOMAIN chat :
    LET trail == chat[mid].chain.trail
        n == chat[mid].chain.n
    IN /\ trail # <<>> => PosOf(chat[mid]) = trail[Len(trail)]
       /\ \A i \in 1..Len(trail) :
            (i + n <= Len(trail) /\ trail[i] \in 1..n) => trail[i + n] = trail[i]

\* Three presses of "next" from position 2 of 3 lead back to position 2.
C4_Witness ==
  \E mid \in DOMAIN chat :
    /\ chat[mid].chain.n = 3
    /\ Len(chat[mid].chain.trail) = 5
    /\ chat[mid].chain.trail[2] = 2
    /\ PosOf(chat[mid]) = 2

\* ---- C5
\* C5: a next or previous press carrying position p, handled against a
\* non-empty list of total documents, picks the document at 0-based index
\* (p - 1 + delta + total) % total of the list by createdAt descending
\* (delta = 1 for next, -1 for previous), and the message sent shows that
\* document with position index + 1 and that total.
C5_DirectionalStep ==
  [][\A s \in Slots :
       /\ (NavList(s) /\ Len(tasks[s].data) = 2 /\ IsInt(tasks[s].data[2])
             /\ DOMAIN store # {}) =>
            LET p == ToInt(tasks[s].data[2])
                total == Cardinality(DOMAIN store)
                delta == IF tasks[s].data[1] = "next" THEN 1 ELSE -1
                k == (p - 1 + delta + total) % total
                shown == tasks'[s].sub.doc_id
            IN /\ tasks'[s].pc = "nav_delete"
               /\ shown \in DOMAIN store
               /\ tasks'[s].sub = store[shown]
               /\ Cardinality(Newer(shown)) <= k
               /\ k < Cardinality(NotOlder(shown))
               /\ tasks'[s].new_index = k
               /\ tasks'[s].total = total
       /\ NavSend(s) =>
            /\ chat'[nextMid].doc_id = tasks[s].sub.doc_id
            /\ NavRow(chat'[nextMid]) =
                 NavRowFor(tasks[s].new_index + 1, tasks[s].total)]_vars

\* "Previous" pressed at position 1 of 3 wraps to the last document.
C5_Witness ==
  \E s \in Slots :
    /\ tasks[s].pc = "nav_send"
    /\ tasks[s].data = <<"prev", "1">>
    /\ tasks[s].new_index = 2 /\ tasks[s].total = 3

\* ---- C6
\* C6: a next or previous press on a message opened from the favorites or the
\* selected view is resolved against the unfiltered list: the total is the
\* number of stored documents and the new position is
\* (p - 1 + delta) % total + 1 for that total.
C6_FilterLostOnNavigation ==
  [][\A s \in Slots :
       (NavList(s) /\ tasks[s].from.view \in {"favorite", "selected"}
          /\ DOMAIN store # {}) =>
         LET p == ToInt(tasks[s].data[2])
             total == Cardinality(DOMAIN store)
             delta == IF tasks[s].data[1] = "next" THEN 1 ELSE -1
         IN /\ tasks'[s].total = total
            /\ tasks'[s].new_index + 1 = ((p - 1 + delta + total) % total) + 1
            /\ tasks'[s].sub.doc_id \in DOMAIN store]_vars

\* From the favorites view the press lands on a document that is no
\* favorite, with a total that is not the number of favorites.
C6_Witness ==
  \E s \in Slots :
    /\ tasks[s].pc = "nav_delete"
    /\ tasks[s].from.view = "favorite"
    /\ ~tasks[s].sub.favorite
    /\ tasks[s].total # Cardinality({d \in DOMAIN store : store[d].favorite})

\* ---- C7
Marked(m) == (Len(m.body) > 0 /\ m.body[1] = "tree") \/ m.photo = "file"

\* The update carrying message m is taken up in slot s, by whichever handler.
Handles(s, m) ==
  /\ nEvents' = nEvents + 1
  /\ HandlerFor(m) = "none" \/ tasks'[s].handler = HandlerFor(m)
  /\ StartCommand(s, m) \/ IntakeSave(s, m) \/ MenuList(s, m) \/ Unhandled(s, m)

ToggleRowFor(d) ==
  <<Button(<<"fav">>, <<"fav", d>>), Button(<<"sel">>, <<"sel", d>>)>>

\* C7: a message from a non-manager chat that starts with the marker or
\* carries a photo adds exactly one document, with favorite and selected
\* false, and leaves the others as they were; the handler's next step sends
\* the manager exactly one message for that document, whose keyboard is the
\* row of the two toggles ("add to favorites", "add to selection") and
\* nothing else.
C7_Intake ==
  [][\A s \in Slots :
       /\ \A m \in Messages :
            (m.chat # MANAGER_CHAT_ID /\ Marked(m) /\ Handles(s, m)) =>
              \E d \in DOMAIN store' \ DOMAIN store :
                /\ DOMAIN store' = DOMAIN store \cup {d}
                /\ \A x \in DOMAIN store : store'[x] = store[x]
                /\ store'[d].favorite = FALSE /\ store'[d].selected = FALSE
                /\ tasks'[s].pc = "send_manager" /\ tasks'[s].doc_id = d
       /\ IntakeSend(s) =>
            /\ nextMid \notin DOMAIN chat
            /\ DOMAIN chat' = DOMAIN chat \cup {nextMid}
            /\ \A x \in DOMAIN chat : chat'[x] = chat[x]
            /\ chat'[nextMid].doc_id = tasks[s].doc_id
            /\ chat'[nextMid].reply_markup = <<ToggleRowFor(tasks[s].doc_id)>>]_vars

\* A photo submission has been delivered to the manager without a
\* navigation row.
C7_Witness ==
  \E s \in Slots : \E mid \in DOMAIN chat :
    /\ tasks[s].handler = "handle_new_submission" /\ tasks[s].out = "delivered"
    /\ chat[mid].kind = "photo"
    /\ chat[mid].doc_id \in DOMAIN store
    /\ NavRow(chat[mid]) = <<>>

\* ---- C8
Ignored(s) ==
  /\ store' = store
  /\ chat' = chat
  /\ tasks'[s].pc = "done" /\ tasks'[s].out = "ignored" /\ tasks'[s].acks = <<>>

\* C8 as claimed: every message from a non-manager chat that neither starts
\* with the marker nor carries a photo is ignored.
C8_AllOthersIgnored ==
  [][\A s \in Slots : \A m \in Messages :
       (m.chat # MANAGER_CHAT_ID /\ ~Marked(m) /\ Handles(s, m)) => Ignored(s)]_vars

StartsCommand(m) == m.photo = "None" /\ Len(m.body) > 0 /\ m.body[1] = "/start"

\* C8, amended: every such message other than the /start command is ignored:
\* no document is created, nothing is sent to the manager, and the sender gets
\* no reply.
C8_OthersButStartIgnored ==
  [][\A s \in Slots : \A m \in Messages :
       (m.chat # MANAGER_CHAT_ID /\ ~Marked(m) /\ ~StartsCommand(m) /\ Handles(s, m))
         => Ignored(s)]_vars

C8_Witness ==
  \E s \in Slots :
    tasks[s].handler = "handle_new_submission" /\ tasks[s].out = "ignored"

\* ---- C9
\* t is b without its leading and trailing whitespace.
IsTrimOf(t, b) ==
  \E i \in 1..(Len(b) + 1) : \E j \in 0..Len(b) :
    /\ t = SubSeq(b, i, j)
    /\ \A k \in 1..(i - 1) : b[k] = "_"
    /\ \A k \in (j + 1)..Len(b) : b[k] = "_"
    /\ t # <<>> => (t[1] # "_" /\ t[Len(t)] # "_")

\* C9: every stored document has a non-empty text: intake stores the trimmed
\* text or caption, or the placeholder when nothing is left of it, and no
\* step changes the text of a stored document.
C9_TextNeverEmpty ==
  /\ [](\A d \in DOMAIN store : store[d].text # <<>>)
  /\ [][/\ \A d \in DOMAIN store \cap DOMAIN store' :
              store'[d].text = store[d].text
        /\ \A d \in DOMAIN store' \ DOMAIN store : \A s \in Slots :
              \A m \in Messages :
                IntakeSave(s, m) =>
                  \/ IsTrimOf(store'[d].text, m.body) /\ store'[d].text # <<>>
                  \/ IsTrimOf(<<>>, m.body) /\ store'[d].text = Placeholder]_vars

\* A photo whose caption is whitespace only was stored with the placeholder.
C9_Witness ==
  \E s \in Slots :
    /\ tasks[s].pc = "send_manager"
    /\ tasks[s].doc_id \in DOMAIN store
    /\ store[tasks[s].doc_id].text = Placeholder
    /\ store[tasks[s].doc_id].photo = "file"

\* ---- C10
Matching(label) ==
  {d \in DOMAIN store :
     /\ label = MenuFav => store[d].favorite
     /\ label = MenuSel => store[d].selected}

\* C10: a menu press of the manager with no document matching its filter ends
\* in the "none yet" reply, with nothing rendered; otherwise the handler picks
\* a matching document that no matching document is newer than, and sends it
\* with position 1 and the number of matching documents as total.
C10_MenuPress ==
  [][\A s \in Slots :
       /\ \A m \in Messages :
            (m.chat = MANAGER_CHAT_ID /\ m.photo = "None" /\ m.body \in MenuLabels
               /\ Handles(s, m)) =>
              IF Matching(m.body) = {}
              THEN /\ tasks'[s].pc = "done" /\ tasks'[s].out = "none_found"
                   /\ chat' = chat
              ELSE /\ tasks'[s].pc = "menu_send"
                   /\ tasks'[s].sub.doc_id \in Matching(m.body)
                   /\ tasks'[s].sub = store[tasks'[s].sub.doc_id]
                   /\ \A x \in Matching(m.body) :
                        store[x].createdAt <= tasks'[s].sub.createdAt
                   /\ tasks'[s].total = Cardinality(Matching(m.body))
       /\ MenuSend(s) =>
            /\ DOMAIN chat' = DOMAIN chat \cup {nextMid}
            /\ chat'[nextMid].doc_id = tasks[s].sub.doc_id
            /\ NavRow(chat'[nextMid]) = NavRowFor(1, tasks[s].total)]_vars

\* The selected view of three documents is about to open on a document that
\* is not the newest of the collection, as 1 of 2.
C10_Witness ==
  \E s \in Slots :
    /\ tasks[s].pc = "menu_send"
    /\ tasks[s].filter_key = "selected"
    /\ tasks[s].total = 2
    /\ Cardinality(DOMAIN store) = 3
    /\ \E x \in DOMAIN store : store[x].createdAt > tasks[s].sub.createdAt

\* ---- C11
\* The text of the last answer a handler gave to its callback query ("" when
\* it gave only the empty answer of line 232).
LastAck(t) == IF t.acks = <<>> THEN "" ELSE t.acks[Len(t.acks)]

\* C11 as claimed: a step of the toggle flow (the fetch, the write, the list
\* re-fetch) that finds its document absent ends the flow normally with the
\* "not found" or the "could not update" answer, and leaves the store as it
\* is.
C11_NotFoundNeverFatal ==
  [][\A s \in Slots :
       ((ToggleGet(s) \/ ToggleUpdate(s) \/ ToggleList(s))
          /\ tasks[s].doc_id \notin DOMAIN store) =>
         /\ tasks'[s].pc = "done"
         /\ LastAck(tasks'[s]) \in {"not_found", "could_not_update"}
         /\ store' = store]_vars

\* The document was removed between the fetch and the write: the write
\* raised NotFound out of the handler, after the empty answer only.
C11_Witness ==
  \E s \in Slots :
    /\ tasks[s].handler = "handle_callback_query"
    /\ tasks[s].pc = "failed" /\ tasks[s].out = "NotFound"
    /\ tasks[s].acks = <<"">>

\* ---- C12
\* C12: when a store call of a callback handler fails (the list fetch of a
\* navigation press; the fetch, the write or the list re-fetch of a toggle
\* press), the handler ends in that failure: the only answer the query got is
\* the empty one given on entry, which shows the manager nothing, and no
\* message is sent, edited or deleted.
C12_StoreFailureSilent ==
  [][\A s \in Slots :
       (tasks[s].pc \in {"nav_list", "get", "update", "tlist"} /\ StoreFails(s)) =>
         /\ tasks'[s].pc = "failed"
         /\ tasks'[s].acks = <<"">>
         /\ chat' = chat /\ nextMid' = nextMid
         /\ store' = store]_vars

\* The list re-fetch failed after the flag had been written: the write stays,
\* the keyboard keeps the old label and the press got no answer text.
C12_Witness ==
  \E s \in Slots : \E d \in DOMAIN store : \E mid \in DOMAIN chat :
    /\ tasks[s].out = "StoreError" /\ tasks[s].acks = <<"">>
    /\ Len(wlog[d]) = 1 /\ wlog[d][1].field = "favorite"
    /\ store[d].favorite
    /\ chat[mid].doc_id = d
    /\ chat[mid].reply_markup[1][1].text = <<"fav">>
    /\ \A r \in Slots : Free(tasks[r])

\* ---- C13
\* C13 as claimed: a press with a malformed payload is ignored: its handling
\* ends normally, with no answer text, no message sent, edited or deleted and
\* no store change.
C13_MalformedIgnored ==
  [][\A s \in Slots :
       /\ \A mid \in DOMAIN chat : \A data \in MalformedData :
            PressMalformed(s, mid, data) =>
              /\ tasks'[s].pc \in {"done", "nav_list"}
              /\ tasks'[s].acks = <<"">>
              /\ chat' = chat /\ store' = store
       /\ (NavList(s) /\ tasks[s].data \in MalformedData) =>
              /\ tasks'[s].pc = "done"
              /\ tasks'[s].acks = <<"">>
              /\ chat' = chat /\ store' = store]_vars

\* A press with a kind and no argument has ended in an IndexError.
C13_Witness ==
  \E s \in Slots :
    /\ tasks[s].handler = "handle_callback_query"
    /\ tasks[s].pc = "failed" /\ tasks[s].out = "IndexError"

\* ---- C14
\* C14: a next or previous press with a well-formed payload answers "list
\* empty" exactly when the list it fetched is empty; it then ends at once,
\* with no message deleted, sent or edited and the store unchanged, and its
\* slot does nothing more until the next update.
C14_EmptyList ==
  [][\A s \in Slots :
       /\ (NavList(s) /\ Len(tasks[s].data) = 2 /\ IsInt(tasks[s].data[2])) =>
            /\ (DOMAIN store = {}) <=> (tasks'[s].out = "list_empty")
            /\ (DOMAIN store = {}) =>
                 /\ tasks'[s].pc = "done"
                 /\ tasks'[s].acks = <<"", "list_empty">>
            /\ chat' = chat /\ nextMid' = nextMid /\ store' = store
       /\ (tasks[s].out = "list_empty" /\ tasks'[s] # tasks[s]) =>
            nEvents' = nEvents + 1]_vars

\* The message pressed is still displayed after the "list empty" answer.
C14_Witness ==
  \E s \in Slots :
    /\ tasks[s].out = "list_empty"
    /\ DOMAIN store = {}
    /\ DOMAIN chat # {}

\* ---- C15
\* What of a document no action of the bot may change.
Identity(doc) == <<doc.doc_id, doc.chatId, doc.text, doc.photo, doc.createdAt>>

\* C15: a document leaves the collection only by a manual deletion; while it
\* is stored its id, origin chat, text, photo reference and createdAt stay as
\* created; a new document comes only from handle_new_submission, for a chat
\* that is not the manager's; and no message from the manager's chat, marker
\* or photo or not, changes the collection.
C15_Lifecycle ==
  [][/\ \A d \in DOMAIN store :
          /\ d \notin DOMAIN store' => ExternalDelete(d)
          /\ d \in DOMAIN store' => Identity(store'[d]) = Identity(store[d])
     /\ \A d \in DOMAIN store' \ DOMAIN store :
          /\ store'[d].doc_id = d
          /\ store'[d].chatId # MANAGER_CHAT_ID
          /\ \E s \in Slots : /\ tasks'[s] # tasks[s]
                              /\ tasks'[s].handler = "handle_new_submission"
                              /\ tasks'[s].doc_id = d
     /\ store' # store =>
          \A s \in Slots : \A m \in Messages :
            m.chat = MANAGER_CHAT_ID => ~Handles(s, m)]_vars

\* A document was created by intake (its message still has no navigation
\* row) and then had a flag flipped, and another was removed by hand.
C15_Witness ==
  \E d \in DOMAIN store : \E mid \in DOMAIN chat :
    /\ chat[mid].doc_id = d /\ NavRow(chat[mid]) = <<>>
    /\ Len(wlog[d]) = 1
    /\ usedIds # DOMAIN store

\* ---- C16
\* Writes i and i + 1 of document d are of the same flag, and neither writer
\* had seen a write of that flag made after the other's read: both read the
\* same value.
Raced(d, i) ==
  /\ i + 1 <= Len(wlog[d])
  /\ wlog[d][i].field = wlog[d][i + 1].field
  /\ wlog[d][i + 1].readAt < i
  /\ \A k \in 1..(i - 1) :
       (k > wlog[d][i].readAt \/ k > wlog[d][i + 1].readAt)
         => wlog[d][k].field # wlog[d][i].field

\* C16: when two presses of the same flag of a document raced, both wrote
\* the negation of the one value both had read, so the second write changed
\* nothing and the flag is left flipped once, not back at its original value.
C16_LostUpdate ==
  \A d \in DocIds : \A i \in 1..Len(wlog[d]) :
    Raced(d, i) =>
      /\ wlog[d][i].new = ~wlog[d][i].old
      /\ wlog[d][i + 1].new = wlog[d][i].new
      /\ (d \in DOMAIN store /\ Len(wlog[d]) = i + 1)
           => store[d][wlog[d][i].field] = ~wlog[d][i].old

\* Two presses of "favorite" on one document, both read before either wrote,
\* both handlers through: the flag is flipped once.
C16_Witness ==
  \E d \in DOMAIN store :
    /\ Len(wlog[d]) = 2
    /\ wlog[d][1].field = "favorite" /\ wlog[d][2].field = "favorite"
    /\ wlog[d][1].readAt = 0 /\ wlog[d][2].readAt = 0
    /\ store[d].favorite = ~wlog[d][1].old
    /\ \A s \in Slots : Finished(tasks[s])

\* ---- C17
LabelsFor(doc) ==
  <<IF doc.favorite THEN <<"unfav">> ELSE <<"fav">>,
    IF doc.selected THEN <<"unsel">> ELSE <<"sel">>>>

LabelsOf(message) ==
  <<message.reply_markup[1][1].text, message.reply_markup[1][2].text>>

\* C17 as claimed: whenever a toggle flow edits the keyboard of a message
\* whose document is stored, the two toggle labels it writes are those of the
\* document's stored favorite and selected values at that moment.
C17_LabelsMatchStore ==
  [][\A s \in Slots :
       (ToggleEdit(s) /\ chat' # chat /\ tasks[s].doc_id \in DOMAIN store) =>
         LabelsOf(chat'[tasks[s].mid]) = LabelsFor(store[tasks[s].doc_id])]_vars

\* Both handlers are through, both saved, and the message shows labels that
\* are not those of the stored document.
C17_Witness ==
  \E mid \in DOMAIN chat :
    /\ chat[mid].doc_id \in DOMAIN store
    /\ LabelsOf(chat[mid]) # LabelsFor(store[chat[mid].doc_id])
    /\ \A s \in Slots : tasks[s].pc = "done" /\ tasks[s].out = "saved"

\* ---- C18
\* C18: the write of a toggle press changes nothing but the flag its payload
\* names, of the document its payload names, which then holds the value
\* written; the other steps of the flow leave the collection as it is.
C18_ToggleFrame ==
  [][\A s \in Slots :
       /\ (ToggleGet(s) \/ ToggleList(s) \/ ToggleEdit(s)) => store' = store
       /\ (ToggleUpdate(s) /\ tasks[s].doc_id \in DOMAIN store) =>
            LET d == tasks[s].data[2]
                flag == IF tasks[s].data[1] = "fav" THEN "favorite" ELSE "selected"
                other == IF tasks[s].data[1] = "fav" THEN "selected" ELSE "favorite"
            IN /\ DOMAIN store' = DOMAIN store
               /\ \A x \in DOMAIN store \ {d} : store'[x] = store[x]
               /\ Identity(store'[d]) = Identity(store[d])
               /\ store'[d][other] = store[d][other]
               /\ store'[d][flag] = tasks[s].updates[2]]_vars

\* "selected" was written on a favorite, next to another document.
C18_Witness ==
  \E d \in DOMAIN store :
    /\ Len(wlog[d]) = 1
    /\ wlog[d][1].field = "selected" /\ wlog[d][1].old = FALSE
    /\ store[d].favorite /\ store[d].selected
    /\ Cardinality(DOMAIN store) = 2

\* ---- C19
\* C19: a next or previous press with position p >= 1, whatever the length
\* of the list p was rendered against, handled against a non-empty list,
\* picks a document of that list at an index in 0..total - 1, and the message
\* sent shows a position in 1..total.
C19_StaleTolerated ==
  [][\A s \in Slots :
       /\ (NavList(s) /\ Len(tasks[s].data) = 2 /\ IsInt(tasks[s].data[2])
             /\ ToInt(tasks[s].data[2]) >= 1 /\ DOMAIN store # {}) =>
            /\ tasks'[s].pc = "nav_delete"
            /\ tasks'[s].total = Cardinality(DOMAIN store)
            /\ tasks'[s].new_index \in 0..(tasks'[s].total - 1)
            /\ tasks'[s].sub.doc_id \in DOMAIN store
            /\ tasks'[s].sub = store[tasks'[s].sub.doc_id]
       /\ NavSend(s) => PosOf(chat'[nextMid]) \in 1..tasks[s].total]_vars

\* The position pressed is beyond the end of the list fetched.
C19_Witness ==
  \E s \in Slots :
    /\ tasks[s].pc = "nav_delete"
    /\ ToInt(tasks[s].data[2]) > tasks[s].total + 1

\* ---- C20
\* C20: the delete of a navigation press either removes the pressed message,
\* and only then does the handler go on to send, or fails, and then the
\* handler ends with nothing sent; a send adds one message for a message this
\* press removed (no other press is about to send for the same message); no
\* other step of the press touches the chat. So a press never adds to the
\* messages displayed.
C20_ReplaceNeverDuplicate ==
  [][\A s \in Slots :
       /\ NavDelete(s) =>
            IF tasks[s].mid \in DOMAIN chat
            THEN /\ DOMAIN chat' = DOMAIN chat \ {tasks[s].mid}
                 /\ tasks'[s].pc = "nav_send"
            ELSE /\ chat' = chat
                 /\ Finished(tasks'[s])
       /\ NavSend(s) =>
            /\ tasks[s].mid \notin DOMAIN chat
            /\ Cardinality(DOMAIN chat') = Cardinality(DOMAIN chat) + 1
            /\ \A r \in Slots \ {s} :
                 tasks[r].pc = "nav_send" => tasks[r].mid # tasks[s].mid
       /\ NavList(s) => chat' = chat]_vars

\* Two presses on the same message: one replaced it, the other's delete
\* failed, and one message is displayed.
C20_Witness ==
  \E s, r \in Slots :
    /\ tasks[s].handler = "handle_callback_query" /\ tasks[s].out = "shown"
    /\ tasks[r].out = "nav_error_logged"
    /\ Cardinality(DOMAIN chat) = 1

====
